---- MODULE Spec2Model ----
(***************************************************************************)
(* A model of pyFM/mesh/geometry.py: the scatter-add of face areas onto    *)
(* vertices, the two forms of the per-face gradient, the assembly of the   *)
(* orientation operator, the edge list and geodesic distance matrix of a   *)
(* mesh, and farthest point sampling.  Every function of the file is pure; *)
(* Init draws its inputs and the actions are its steps.                    *)
(*                                                                         *)
(* Reals are modelled by integers: inputs are drawn so that every          *)
(* division and square root of the code is exact on them.                  *)
(***************************************************************************)
EXTENDS Integers, Sequences, FiniteSets

\* ------------------------------------------------------------------ bounds
\* number of points of a distance matrix given to farthest_point_sampling
NPoints == 3
\* number of vertices of a mesh
NVerts == 4
\* largest number of faces of a mesh
MaxFaces == 2

\* ------------------------------------------------------------------ state
VARIABLES
    fn,           \* the function being run
    pc,           \* its position
    \* farthest_point_sampling
    D, k, random_init, inds, dists,
    \* the mesh: (n,3) vertex coordinates, (m,3) vertex indices
    vertices, faces,
    \* compute_vertex_areas
    faces_areas, vertex_areas,
    \* get_orientation_op: the three einsum vectors, W before the scaling, and
    \* the result, entry (i,j) a fraction <<numerator, denominator>>
    dots, per_vert_area, W, operator,
    \* grad_f: the gradient of a face is a fraction <<numerator, denominator>>
    f, normals, face_areas, use_sym, gradient,
    \* edges_from_faces and geodesic_distmat
    edges, graph, geod_dist

fpsVars == <<D, k, random_init, inds, dists>>

areaVars == <<faces_areas, vertex_areas>>

orientVars == <<dots, per_vert_area, W, operator>>

gradVars == <<f, normals, face_areas, use_sym, gradient>>

geoVars == <<edges, graph, geod_dist>>

vars ==
    <<fn, pc, fpsVars, vertices, faces, areaVars, orientVars, gradVars, geoVars>>

\* The value of a variable that the function being run does not use.
None == <<>>

\* ------------------------------------------------------------- arithmetic
\* numpy's inf, as scipy's dijkstra reports an unreachable vertex: larger
\* than every finite value, and absorbing under addition.
Inf == 1000

Add(a, b) == IF a = Inf \/ b = Inf THEN Inf ELSE a + b

Maximum(a, b) == IF a >= b THEN a ELSE b

Minimum(a, b) == IF a <= b THEN a ELSE b

\* The least element of a non-empty set of distances.
LeastOf(S) == CHOOSE m \in S : \A x \in S : m <= x

\* The variables of the functions not being run.
IdleFPS == D = None /\ k = None /\ random_init = None /\ inds = None /\ dists = None

IdleMesh == vertices = None /\ faces = None

IdleArea == faces_areas = None /\ vertex_areas = None

IdleOrient == dots = None /\ per_vert_area = None /\ W = None /\ operator = None

IdleGrad ==
    /\ f = None /\ normals = None /\ face_areas = None
    /\ use_sym = None /\ gradient = None

IdleGeo == edges = None /\ graph = None /\ geod_dist = None

\* =================================================== farthest_point_sampling
Idx == 0 .. (NPoints - 1)

\* D.sum(1)[i]: the sum of row i, entry by entry.
RECURSIVE RowSumTo(_, _, _)
RowSumTo(M, i, j) ==
    IF j < 0 THEN 0 ELSE Add(RowSumTo(M, i, j - 1), M[i][j])

RowSums(M) == [i \in Idx |-> RowSumTo(M, i, NPoints - 1)]

\* np.argmax scanning v[0..j]: the best index so far is replaced only by a
\* strictly larger entry, so the first maximum wins.
RECURSIVE ArgMaxTo(_, _)
ArgMaxTo(v, j) ==
    IF j = 0 THEN 0
    ELSE LET b == ArgMaxTo(v, j - 1) IN IF v[j] > v[b] THEN j ELSE b

ArgMax(v) == ArgMaxTo(v, NPoints - 1)

\* The indices the first point may be: any under random_init, np.argmax of
\* the row sums otherwise.
AnyFirst == Idx

FirstIndex == IF random_init THEN Idx ELSE {ArgMax(RowSums(D))}

\* np.minimum(dists, D[newid])
MinimumRow(v, row) == [j \in Idx |-> Minimum(v[j], row[j])]

KeepRow(v, row) == row

UpdateDists(v, row) == MinimumRow(v, row)

\* Distance matrices: zero diagonal, entries 0, 1, 2 or Inf.  The upper
\* triangle is drawn freely; the lower triangle mirrors it (asym = 0) or is
\* the mirror with every entry replaced by the next value (asym = 1), which
\* makes D[i][j] and D[j][i] differ.
DistVals == {0, 1, 2, Inf}

NextVal(v) == IF v = Inf THEN 0 ELSE IF v + 1 \in DistVals THEN v + 1 ELSE Inf

UpperPairs == {p \in Idx \X Idx : p[1] < p[2]}

Matrix(u, asym) ==
    [i \in Idx |-> [j \in Idx |->
        IF i = j THEN 0
        ELSE IF i < j THEN u[<<i, j>>]
        ELSE IF asym = 0 THEN u[<<j, i>>] ELSE NextVal(u[<<j, i>>])]]

InitFPS ==
    /\ fn = "farthest_point_sampling"
    /\ pc = "start"
    /\ \E u \in [UpperPairs -> DistVals], asym \in {0, 1} : D = Matrix(u, asym)
    /\ k \in 1 .. NPoints
    /\ random_init \in BOOLEAN
    /\ inds = <<>>
    /\ dists = None
    /\ IdleMesh /\ IdleArea /\ IdleOrient /\ IdleGrad /\ IdleGeo

\* range(k-1): the number of iterations of the loop
IterationsK == k

Iterations == k - 1

\* lines 254-259: the first index and its row of D
FpsFirst ==
    /\ fn = "farthest_point_sampling"
    /\ pc = "start"
    /\ \E i \in FirstIndex :
        /\ inds' = <<i>>
        /\ dists' = D[i]
    /\ pc' = "loop"
    /\ UNCHANGED <<fn, D, k, random_init, vertices, faces, areaVars, orientVars, gradVars, geoVars>>

\* lines 261-264: one iteration of the loop
FpsStep ==
    /\ fn = "farthest_point_sampling"
    /\ pc = "loop"
    /\ Len(inds) - 1 < Iterations
    /\ LET newid == ArgMax(dists) IN
        /\ inds' = Append(inds, newid)
        /\ dists' = UpdateDists(dists, D[newid])
    /\ UNCHANGED <<fn, pc, D, k, random_init, vertices, faces, areaVars, orientVars, gradVars, geoVars>>

\* line 266: the loop has run k-1 times
FpsReturn ==
    /\ fn = "farthest_point_sampling"
    /\ pc = "loop"
    /\ Len(inds) - 1 = Iterations
    /\ pc' = "done"
    /\ UNCHANGED <<fn, D, k, random_init, inds, dists, vertices, faces, areaVars, orientVars, gradVars, geoVars>>

NextFPS == FpsFirst \/ FpsStep \/ FpsReturn

SpecFPS == InitFPS /\ [][NextFPS]_vars

\* ====================================================================== mesh
Verts == 0 .. (NVerts - 1)

\* A face: the vertex indices faces[t,0], faces[t,1], faces[t,2], here at
\* positions 1, 2, 3 of a tuple.
Triples == Verts \X Verts \X Verts

\* The (m,3) index arrays: 1 to MaxFaces faces, degenerate and repeated
\* faces included.
FaceLists == UNION {[1 .. m -> Triples] : m \in 1 .. MaxFaces}

\* faces[:,c]
Column(F, c) == [t \in 1 .. Len(F) |-> F[t][c + 1]]

\* np.concatenate([a, b, c])
Concatenate3(a, b, c) == a \o b \o c

\* Adding one triplet (i, j, v) to a matrix: values at the same place add up.
Overwrite(M, i, j, v) == [M EXCEPT ![i][j] = v]

Accumulate(M, i, j, v) == [M EXCEPT ![i][j] = @ + v]

Store(M, i, j, v) == Accumulate(M, i, j, v)

\* The dense form of sparse.coo_matrix((Vs, (Is, Js)), shape): entry (i,j) is
\* the sum of the values of all triplets at (i,j).
RECURSIVE ToDenseTo(_, _, _, _, _, _)
ToDenseTo(Is, Js, Vs, rows, cols, t) ==
    IF t = 0 THEN [i \in rows |-> [j \in cols |-> 0]]
    ELSE Store(ToDenseTo(Is, Js, Vs, rows, cols, t - 1), Is[t], Js[t], Vs[t])

ToDense(Is, Js, Vs, rows, cols) == ToDenseTo(Is, Js, Vs, rows, cols, Len(Is))

\* ====================================================== compute_vertex_areas
\* Face areas are drawn among the multiples of 3, on which /3 is exact.
AreaVals == {0, 3, 6}

InitArea ==
    /\ fn = "compute_vertex_areas"
    /\ pc = "start"
    /\ vertices = None
    /\ faces \in FaceLists
    /\ faces_areas \in [1 .. Len(faces) -> AreaVals]
    /\ vertex_areas = None
    /\ IdleFPS /\ IdleOrient /\ IdleGrad /\ IdleGeo

\* lines 70-75, with faces_areas given
ComputeVertexAreas ==
    /\ fn = "compute_vertex_areas"
    /\ pc = "start"
    /\ LET I == Concatenate3(Column(faces, 0), Column(faces, 1), Column(faces, 2))
           J == [t \in 1 .. Len(I) |-> 0]
           A3 == Concatenate3(faces_areas, faces_areas, faces_areas)
           V == [t \in 1 .. Len(A3) |-> A3[t] \div 3]
           M == ToDense(I, J, V, Verts, {0})
       IN vertex_areas' = [v \in Verts |-> M[v][0]]
    /\ pc' = "done"
    /\ UNCHANGED <<fn, fpsVars, vertices, faces, faces_areas, orientVars, gradVars,
                   geoVars>>

NextArea == ComputeVertexAreas

SpecArea == InitArea /\ [][NextArea]_vars

\* ======================================================== get_orientation_op
\* The values of the three einsums on a face, Jc1.rot_field, Jc2.rot_field
\* and Jc3.rot_field, drawn among the multiples of 3, on which 1/3* is exact.
DotVals == {-3, 6}

Third(x) == x \div 3

Negate(v) == [t \in 1 .. Len(v) |-> 0 - v[t]]

Identity(v) == v

\* -Sij, -Sji
Minus(v) == Negate(v)

\* Vertex areas: positive, growing with the index.
PerVertAreas == {[v \in Verts |-> v + 1]}

InitOrient ==
    /\ fn = "get_orientation_op"
    /\ pc = "start"
    /\ vertices = None
    /\ faces \in FaceLists
    /\ dots \in [1 .. 3 -> [1 .. Len(faces) -> DotVals]]
    /\ per_vert_area \in PerVertAreas
    /\ W = None
    /\ operator = None
    /\ IdleFPS /\ IdleArea /\ IdleGrad /\ IdleGeo

\* lines 166-183: the triplets and their sum W
AssembleW ==
    /\ fn = "get_orientation_op"
    /\ pc = "start"
    /\ LET I == Concatenate3(Column(faces, 0), Column(faces, 1), Column(faces, 2))
           J == Concatenate3(Column(faces, 1), Column(faces, 2), Column(faces, 0))
           d12 == Concatenate3(dots[2], dots[3], dots[1])
           d21 == Concatenate3(dots[1], dots[2], dots[3])
           Sij == [t \in 1 .. Len(d12) |-> Third(d12[t])]
           Sji == [t \in 1 .. Len(d21) |-> Third(d21[t])]
           In == I \o J \o I \o J
           Jn == J \o I \o I \o J
           Sn == Sij \o Sji \o Minus(Sij) \o Minus(Sji)
       IN W' = ToDense(In, Jn, Sn, Verts, Verts)
    /\ pc' = "assembled"
    /\ UNCHANGED <<fn, fpsVars, vertices, faces, areaVars, dots, per_vert_area,
                   operator, gradVars, geoVars>>

\* lines 184-186: inv_area @ W, row i divided by per_vert_area[i]
ScaleRows ==
    /\ fn = "get_orientation_op"
    /\ pc = "assembled"
    /\ operator' = [i \in Verts |-> [j \in Verts |-> <<W[i][j], per_vert_area[i]>>]]
    /\ pc' = "done"
    /\ UNCHANGED <<fn, fpsVars, vertices, faces, areaVars, dots, per_vert_area, W,
                   gradVars, geoVars>>

NextOrient == AssembleW \/ ScaleRows

SpecOrient == InitOrient /\ [][NextOrient]_vars

\* ==================================================================== grad_f
\* 3-vectors
Sub(a, b) == <<a[1] - b[1], a[2] - b[2], a[3] - b[3]>>

Plus(a, b) == <<a[1] + b[1], a[2] + b[2], a[3] + b[3]>>

Scale(c, a) == <<c * a[1], c * a[2], c * a[3]>>

\* np.cross
Cross(a, b) ==
    <<a[2] * b[3] - a[3] * b[2], a[3] * b[1] - a[1] * b[3],
      a[1] * b[2] - a[2] * b[1]>>

\* Vertex coordinates, integer so that the arithmetic is exact: the corners
\* of a 3 x 4 rectangle, points of a line, two alternating points, and
\* points of a twisted curve.
Layout(name) ==
    [i \in Verts |->
        CASE name = "rect" -> <<3 * (i % 2), 4 * ((i \div 2) % 2), 0>>
          [] name = "line" -> <<i, 0, 0>>
          [] name = "fold" -> <<0, 0, 12 * (i % 2)>>
          [] name = "twist" -> <<i, i * i, i * i * i>>]

\* Per-face normals as given by the caller, not normalised here.
NormalVals == {<<0, 0, 1>>, <<1, -2, 2>>}

\* vertices[faces[:,c]] and f[faces[:,c]] on face t
Corner(t, c) == vertices[faces[t][c + 1]]

ValueAt(t, c) == f[faces[t][c + 1]]

\* The numerators of grad1, grad2 and grad3 on face t (lines 117-119 and
\* 111-112); the denominator of each is 2 * face_areas[t].
SwappedGrad1(t) == Cross(normals[t], Sub(Corner(t, 1), Corner(t, 2)))

Grad1(t) == Cross(normals[t], Sub(Corner(t, 2), Corner(t, 1)))

Grad2(t) == Cross(normals[t], Sub(Corner(t, 0), Corner(t, 2)))

Grad3(t) == Cross(normals[t], Sub(Corner(t, 1), Corner(t, 0)))

\* line 114
NonSymmetric(t) ==
    <<Plus(Scale(ValueAt(t, 1) - ValueAt(t, 0), Grad2(t)),
           Scale(ValueAt(t, 2) - ValueAt(t, 0), Grad3(t))),
      2 * face_areas[t]>>

\* line 121
Symmetric(t) ==
    <<Plus(Plus(Scale(ValueAt(t, 0), Grad1(t)), Scale(ValueAt(t, 1), Grad2(t))),
           Scale(ValueAt(t, 2), Grad3(t))),
      2 * face_areas[t]>>

InitGrad ==
    /\ fn = "grad_f"
    /\ pc = "start"
    /\ \E name \in {"rect", "line", "fold", "twist"} : vertices = Layout(name)
    /\ faces \in [1 .. 1 -> Triples]
    /\ f \in [Verts -> 0 .. 2]
    /\ normals \in [1 .. Len(faces) -> NormalVals]
    /\ face_areas \in [1 .. Len(faces) -> 1 .. 2]
    /\ use_sym \in BOOLEAN
    /\ gradient = None
    /\ IdleFPS /\ IdleArea /\ IdleOrient /\ IdleGeo

\* lines 110-123, with face_areas given
GradF ==
    /\ fn = "grad_f"
    /\ pc = "start"
    /\ gradient' = [t \in 1 .. Len(faces) |->
                       IF use_sym THEN Symmetric(t) ELSE NonSymmetric(t)]
    /\ pc' = "done"
    /\ UNCHANGED <<fn, fpsVars, vertices, faces, areaVars, orientVars,
                   f, normals, face_areas, use_sym, geoVars>>

NextGrad == GradF

SpecGrad == InitGrad /\ [][NextGrad]_vars

\* ===================================== edges_from_faces and geodesic_distmat
\* A place of a sparse matrix that holds no entry.
NoEdge == -1

\* M.nonzero() of a COO matrix: the (row, col) of every stored triplet whose
\* value is not 0, in storage order; COO storage keeps one triplet per
\* (value, row, col) given, equal places included.
Nonzero(Is, Js, Vs) ==
    LET keep == SelectSeq([t \in 1 .. Len(Is) |-> t], LAMBDA t : Vs[t] # 0)
    IN [t \in 1 .. Len(keep) |-> <<Is[keep[t]], Js[keep[t]]>>]

\* np.linalg.norm of an integer 3-vector; the layouts keep it an integer.
Norm(d) ==
    LET sq == d[1] * d[1] + d[2] * d[2] + d[3] * d[3]
    IN CHOOSE r \in 0 .. sq : r * r = sq

\* The rows, columns and values handed to coo_matrix for the graph
\* (lines 200-202): every edge and its mirror.
OneWay(I, J, V) == <<I, J, V>>

GraphTriplets(I, J, V) == <<I \o J, J \o I, V \o V>>

\* .tocsr(): the places some triplet names hold the sum of their triplets.
ToCsr(Is, Js, Vs) ==
    LET dense == ToDense(Is, Js, Vs, Verts, Verts)
    IN [i \in Verts |-> [j \in Verts |->
           IF \E t \in 1 .. Len(Is) : Is[t] = i /\ Js[t] = j
           THEN dense[i][j] ELSE NoEdge]]

\* sparse.csgraph.dijkstra(graph): all-pairs shortest paths over the directed
\* stored entries, Inf where there is no path.  Relaxation through the
\* vertices 0 .. m-1 in turn.
RECURSIVE ShortestVia(_, _)
ShortestVia(G, m) ==
    IF m = 0
    THEN [i \in Verts |-> [j \in Verts |->
             IF i = j THEN 0
             ELSE IF G[i][j] = NoEdge THEN Inf ELSE G[i][j]]]
    ELSE LET P == ShortestVia(G, m - 1)
             v == m - 1
         IN [i \in Verts |-> [j \in Verts |->
                Minimum(P[i][j], Add(P[i][v], P[v][j]))]]

Dijkstra(G) == ShortestVia(G, NVerts)

InitGeo ==
    /\ fn = "geodesic_distmat"
    /\ pc = "start"
    /\ \E name \in {"rect", "line", "fold"} : vertices = Layout(name)
    /\ faces \in FaceLists
    /\ edges = None
    /\ graph = None
    /\ geod_dist = None
    /\ IdleFPS /\ IdleArea /\ IdleOrient /\ IdleGrad

\* line 194, lines 228-236: edges_from_faces
EdgesFromFaces ==
    /\ fn = "geodesic_distmat"
    /\ pc = "start"
    /\ LET I == Concatenate3(Column(faces, 0), Column(faces, 1), Column(faces, 2))
           J == Concatenate3(Column(faces, 1), Column(faces, 2), Column(faces, 0))
           V == [t \in 1 .. Len(I) |-> 1]
       IN edges' = Nonzero(I, J, V)
    /\ pc' = "edges"
    /\ UNCHANGED <<fn, fpsVars, vertices, faces, areaVars, orientVars, gradVars,
                   graph, geod_dist>>

\* lines 196-204: the weighted graph
BuildGraph ==
    /\ fn = "geodesic_distmat"
    /\ pc = "edges"
    /\ LET I == [t \in 1 .. Len(edges) |-> edges[t][1]]
           J == [t \in 1 .. Len(edges) |-> edges[t][2]]
           V == [t \in 1 .. Len(edges) |-> Norm(Sub(vertices[J[t]], vertices[I[t]]))]
           T == GraphTriplets(I, J, V)
       IN graph' = ToCsr(T[1], T[2], T[3])
    /\ pc' = "graph"
    /\ UNCHANGED <<fn, fpsVars, vertices, faces, areaVars, orientVars, gradVars,
                   edges, geod_dist>>

\* lines 206-208: the shortest paths
SolveDijkstra ==
    /\ fn = "geodesic_distmat"
    /\ pc = "graph"
    /\ geod_dist' = Dijkstra(graph)
    /\ pc' = "done"
    /\ UNCHANGED <<fn, fpsVars, vertices, faces, areaVars, orientVars, gradVars,
                   edges, graph>>

NextGeo == EdgesFromFaces \/ BuildGraph \/ SolveDijkstra

SpecGeo == InitGeo /\ [][NextGeo]_vars

\* ------------------------------------------------------------- mesh: claims
\* g[0] + ... + g[n-1]
RECURSIVE SumTo(_, _)
SumTo(g, n) == IF n = 0 THEN 0 ELSE SumTo(g, n - 1) + g[n - 1]

\* g[1] + ... + g[n]
RECURSIVE SumSeqTo(_, _)
SumSeqTo(g, n) == IF n = 0 THEN 0 ELSE SumSeqTo(g, n - 1) + g[n]

\* The faces that have v at some corner.
FacesOf(v) == {t \in 1 .. Len(faces) : \E c \in 1 .. 3 : faces[t][c] = v}

\* The number of corners of face t that are v.
Corners(t, v) == Cardinality({c \in 1 .. 3 : faces[t][c] = v})

\* The areas of the first n faces, each counted once per corner that is v.
RECURSIVE CornerAreaTo(_, _)
CornerAreaTo(v, n) ==
    IF n = 0 THEN 0
    ELSE CornerAreaTo(v, n - 1) + Corners(n, v) * faces_areas[n]

\* C4: the result has one entry per vertex, entry v one third of the sum over
\* all faces and corners of the face's area where the corner is v; a vertex
\* of no face has area 0, and the vertex areas sum to the face areas' sum.
C4_VertexAreas ==
    (fn = "compute_vertex_areas" /\ pc = "done") =>
        /\ DOMAIN vertex_areas = Verts
        /\ \A v \in Verts : 3 * vertex_areas[v] = CornerAreaTo(v, Len(faces))
        /\ \A v \in Verts : FacesOf(v) = {} => vertex_areas[v] = 0
        /\ SumTo(vertex_areas, NVerts) = SumSeqTo(faces_areas, Len(faces))

C4_Witness ==
    /\ fn = "compute_vertex_areas" /\ pc = "done"
    /\ Len(faces) = 2
    /\ \A c, d \in 1 .. 3 : c # d => faces[1][c] # faces[1][d]
    /\ \E v \in Verts :
        /\ FacesOf(v) = {1, 2}
        /\ faces_areas[1] > 0 /\ faces_areas[2] > faces_areas[1]
        /\ 3 * vertex_areas[v] = faces_areas[1] + faces_areas[2]
    /\ \E v \in Verts : FacesOf(v) = {}

\* The directed edges of face t: (v0,v1), (v1,v2), (v2,v0).
FaceEdges(t) ==
    {<<faces[t][1], faces[t][2]>>, <<faces[t][2], faces[t][3]>>,
     <<faces[t][3], faces[t][1]>>}

Assembled == fn = "get_orientation_op" /\ pc \in {"assembled", "done"}

\* C5: every row of W, as assembled before the scaling by the inverse vertex
\* areas, sums to zero.
C5_RowSumsZero == Assembled => \A i \in Verts : SumTo(W[i], NVerts) = 0

C5_Witness ==
    /\ Assembled
    /\ Len(faces) = 2
    /\ \E e \in FaceEdges(1) :
        /\ e[1] # e[2]
        /\ <<e[2], e[1]>> \in FaceEdges(2)
        /\ W[e[1]][e[2]] # 0
        /\ W[e[1]][e[1]] # 0
    /\ \A t \in 1 .. 2 : \A c, d \in 1 .. 3 : c # d => faces[t][c] # faces[t][d]
    /\ FacesOf(faces[1][1]) # FacesOf(faces[1][2])

\* C7: on every face the symmetric form f1*grad1 + f2*grad2 + f3*grad3 equals
\* the non-symmetric form (f2-f1)*grad2 + (f3-f1)*grad3; equivalently the
\* numerators of grad1, grad2 and grad3 sum to zero.
C7_FormsAgree ==
    (fn = "grad_f" /\ pc = "done") =>
        \A t \in 1 .. Len(faces) :
            /\ gradient[t] = (IF use_sym THEN NonSymmetric(t) ELSE Symmetric(t))
            /\ Plus(Plus(Grad1(t), Grad2(t)), Grad3(t)) = <<0, 0, 0>>

C7_Witness ==
    /\ fn = "grad_f" /\ pc = "done"
    /\ use_sym
    /\ ValueAt(1, 0) # 0
    /\ Grad1(1) # <<0, 0, 0>>
    /\ gradient[1][1] # <<0, 0, 0>>
    /\ \A c, d \in 1 .. 3 : c # d => faces[1][c] # faces[1][d]

\* -------------------------------------------------------- geodesic: claims
\* The directed edges emitted by the faces.
MeshEdges == UNION {FaceEdges(t) : t \in 1 .. Len(faces)}

\* i and j are joined by an edge of some face, in either direction.
Joined(i, j) == <<i, j>> \in MeshEdges \/ <<j, i>> \in MeshEdges

\* |v_i - v_j|
Length(i, j) == Norm(Sub(vertices[j], vertices[i]))

EdgesReturned == fn = "geodesic_distmat" /\ pc # "start"

EdgeSet == {edges[t] : t \in 1 .. Len(edges)}

\* C3: the pairs of the edge list are exactly the directed edges of the
\* faces, no pair occurs twice, and the single face (0,1,2) gives exactly
\* (0,1), (1,2), (2,0).
C3_EdgesOnce ==
    EdgesReturned =>
        /\ EdgeSet = MeshEdges
        /\ \A s, t \in 1 .. Len(edges) : s # t => edges[s] # edges[t]
        /\ faces = <<(<<0, 1, 2>>)>> =>
               EdgeSet = {<<0, 1>>, <<1, 2>>, <<2, 0>>} /\ Len(edges) = 3

\* The paths from i to j along joined vertices that visit no vertex twice.
SimplePaths(i, j) ==
    {p \in UNION {[1 .. m -> Verts] : m \in 1 .. NVerts} :
        /\ p[1] = i /\ p[Len(p)] = j
        /\ \A s, t \in 1 .. Len(p) : s # t => p[s] # p[t]
        /\ \A s \in 1 .. (Len(p) - 1) : Joined(p[s], p[s + 1])}

RECURSIVE PathLengthTo(_, _)
PathLengthTo(p, n) ==
    IF n <= 1 THEN 0 ELSE PathLengthTo(p, n - 1) + Length(p[n - 1], p[n])

\* The least total length of a path from i to j, Inf when there is none.
PathDistance(i, j) ==
    LET lens == {PathLengthTo(p, Len(p)) : p \in SimplePaths(i, j)}
    IN IF lens = {} THEN Inf ELSE LeastOf(lens)

Solved == fn = "geodesic_distmat" /\ pc = "done"

\* C2: the graph holds, for every pair of vertices joined by a face edge, the
\* Euclidean length of the edge in both directions, counted once, and
\* D[i][j] is the least total length of an edge path from i to j.
C2_EuclideanShortestPaths ==
    Solved =>
        /\ \A i, j \in Verts : Joined(i, j) => graph[i][j] = Length(i, j)
        /\ \A i, j \in Verts : geod_dist[i][j] = PathDistance(i, j)

\* The vertices a path of mesh edges joins to those of S.
RECURSIVE ReachableFrom(_)
ReachableFrom(S) ==
    LET T == S \cup {j \in Verts : \E i \in S : Joined(i, j)}
    IN IF T = S THEN S ELSE ReachableFrom(T)

\* C6: D has a zero diagonal, is symmetric and non-negative, and is Inf
\* exactly between vertices that no path of mesh edges joins.
C6_DistanceMatrix ==
    Solved =>
        /\ \A i \in Verts : geod_dist[i][i] = 0
        /\ \A i, j \in Verts : geod_dist[i][j] = geod_dist[j][i]
        /\ \A i, j \in Verts : geod_dist[i][j] >= 0
        /\ \A i, j \in Verts :
               geod_dist[i][j] = Inf <=> j \notin ReachableFrom({i})

C6_Witness ==
    /\ Solved
    /\ \E i, j \in Verts :
        /\ <<i, j>> \in MeshEdges /\ <<j, i>> \notin MeshEdges
        /\ geod_dist[j][i] > 0 /\ geod_dist[j][i] < Inf
    /\ \E i, j \in Verts : geod_dist[i][j] = Inf

\* ------------------------------------------ farthest_point_sampling: claims
Running == fn = "farthest_point_sampling" /\ pc \in {"loop", "done"}

Returned == fn = "farthest_point_sampling" /\ pc = "done"

Selected(t) == {inds[s] : s \in 1 .. t}

PairwiseDistinct == \A s, t \in 1 .. Len(inds) : s # t => inds[s] # inds[t]

KDistinctIndices ==
    /\ Len(inds) = k
    /\ \A t \in 1 .. Len(inds) : inds[t] \in Idx
    /\ PairwiseDistinct
    /\ k = NPoints => Selected(Len(inds)) = Idx

PositiveOffDiagonal == \A i, j \in Idx : i # j => D[i][j] > 0

\* C1 as stated: for every D with non-negative entries and zero diagonal and
\* every 1 <= k <= n, the result is k pairwise distinct indices of [0,n), a
\* permutation of [0,n) when k = n.
C1_DistinctForNonNegative == Returned => KDistinctIndices

\* C1 amended: the same result, for every D whose off-diagonal entries are
\* all strictly positive (finite or infinite).
C1_DistinctForPositive == (Returned /\ PositiveOffDiagonal) => KDistinctIndices

C1_Witness ==
    /\ Returned
    /\ PositiveOffDiagonal
    /\ k = NPoints
    /\ \E i, j \in Idx : D[i][j] # D[j][i]

\* The distance of j to the nearest of the first t selected points.
MinDistTo(t, j) == LeastOf({D[inds[s]][j] : s \in 1 .. t})

\* The lowest index whose distance to the first t selected points is largest.
FarthestFrom(t) ==
    LET md == [i \in Idx |-> MinDistTo(t, i)] IN
    CHOOSE j \in Idx :
        /\ \A i \in Idx : md[i] <= md[j]
        /\ \A i \in Idx : i < j => md[i] < md[j]

\* C9: before and after every iteration dists[j] is the minimum over the
\* selected p of D[p][j], and every appended index is the lowest index at
\* which that running minimum was maximal.
C9_RunningMinimum ==
    Running =>
        /\ \A j \in Idx : dists[j] = MinDistTo(Len(inds), j)
        /\ \A t \in 2 .. Len(inds) : inds[t] = FarthestFrom(t - 1)

C9_Witness ==
    /\ Returned
    /\ Len(inds) = NPoints
    /\ \E i, j \in Idx : D[i][j] # D[j][i]
    /\ \E j \in Idx : dists[j] < D[inds[Len(inds)]][j]
    /\ \E i \in Idx : i # inds[2] /\ MinDistTo(1, i) = MinDistTo(1, inds[2])

\* The lowest index whose row sum is largest.
LowestMaxRow ==
    LET sums == RowSums(D) IN
    CHOOSE i \in Idx :
        /\ \A j \in Idx : sums[j] <= sums[i]
        /\ \A j \in Idx : j < i => sums[j] < sums[i]

\* No state has two successors that append different indices.
OneSuccessor ==
    Cardinality({a \in Idx : ENABLED (inds' = Append(inds, a) /\ NextFPS)}) <= 1

\* C8: without random_init the run is deterministic and starts at the lowest
\* index of maximal row sum; with random_init the first index is some index
\* of [0,n) and the run is deterministic after it.
C8_Deterministic ==
    fn = "farthest_point_sampling" =>
        /\ Running => inds[1] \in Idx
        /\ (Running /\ ~random_init) => inds[1] = LowestMaxRow
        /\ ((~random_init \/ pc # "start") /\ pc # "done") => OneSuccessor

C8_Witness ==
    /\ Returned
    /\ ~random_init
    /\ k = NPoints
    /\ \E i \in Idx : i # inds[1] /\ RowSums(D)[i] = RowSums(D)[inds[1]]
    /\ \E i \in Idx : RowSums(D)[i] < RowSums(D)[inds[1]]

\* The points joined to i by a path: those at finite distance.
Component(i) == {j \in Idx : D[i][j] # Inf}

Components == {Component(i) : i \in Idx}

\* D has the shape of a shortest-path matrix of an undirected graph: being
\* at finite distance is symmetric and transitive.
IsComponentMatrix ==
    /\ \A i, j \in Idx : D[i][j] = Inf <=> D[j][i] = Inf
    /\ \A i, j, l \in Idx :
        (D[i][j] # Inf /\ D[j][l] # Inf) => D[i][l] # Inf

\* C10: whenever some index is at infinite distance from every selected
\* index, the next selected index is such an index; on a shortest-path matrix
\* the first c selections lie in c different components and, when k >= c,
\* every component holds a selected index.
C10_InfinityIsFarthest ==
    Running =>
        /\ \A t \in 2 .. Len(inds) :
            (\E j \in Idx : \A s \in 1 .. (t - 1) : D[inds[s]][j] = Inf)
                => \A s \in 1 .. (t - 1) : D[inds[s]][inds[t]] = Inf
        /\ IsComponentMatrix =>
            LET c == Cardinality(Components) IN
            /\ \A s, t \in 1 .. Len(inds) :
                (s < t /\ t <= c) => Component(inds[s]) # Component(inds[t])
            /\ (pc = "done" /\ k >= c) =>
                \A comp \in Components : \E t \in 1 .. Len(inds) : inds[t] \in comp

C10_Witness ==
    /\ Returned
    /\ IsComponentMatrix
    /\ Cardinality(Components) = 2
    /\ k = NPoints
    /\ Component(inds[1]) # Component(inds[2])
    /\ Component(inds[1]) = Component(inds[3])

\* ------------------------------------------------------------ whole module
Init == InitFPS \/ InitArea \/ InitOrient \/ InitGrad \/ InitGeo

Next == NextFPS \/ NextArea \/ NextOrient \/ NextGrad \/ NextGeo

Spec == Init /\ [][Next]_vars
====
